---------------------------- MODULE Spec2Model ----------------------------
(***************************************************************************)
(* Model of the market-making control loop of                              *)
(* src/backend/strategies/market_maker.py (class MarketMaker) and of the   *)
(* task that hosts it in src/engine/main.py (lifespan).                    *)
(*                                                                         *)
(* Units.  Quantities (position, skew, order size) are integers counting   *)
(* hundredths of a share: 100 is 1.0 share.  Prices and spread widths are  *)
(* integers counting 0.00001: 5000 is 0.05.  On this grid the float        *)
(* arithmetic of the source is exact (round() is round-half-to-even).      *)
(*                                                                         *)
(* An optional value (Python's None or a value) is the empty sequence or a *)
(* one-element sequence.                                                   *)
(***************************************************************************)
EXTENDS Integers, Sequences, FiniteSets

None == << >>
Some(v) == << v >>
Val(o) == o[1]

Abs(x) == IF x < 0 THEN -x ELSE x
Max(a, b) == IF a >= b THEN a ELSE b
Min(a, b) == IF a <= b THEN a ELSE b

(* ------------------------- program constants --------------------------- *)
\* MarketMakerConfig defaults (quantities in hundredths, widths in 0.00001)
TargetPosition == 0
MaxPosition == 10000
BaseSpreadWidth == 5000
\* calculate_order_sizes: base_size = 5.0, floor max(5, ...), multiplier floor 0.2
BaseSize == 500
MinSize == 500
MinMultiplierPct == 20
\* rebalance_position: abs(skew) < 1, min(abs(skew), 10), midpoint -/+ 0.01
MinRebalanceSkew == 100
RebalanceChunk == 1000
RebalanceOffset == 1000
\* spread_changed: tolerances 0.0001 (width) and 0.01 (sizes)
WidthTolerance == 10
SizeTolerance == 1
\* predict_spread_width: max(0.001, min(0.20, prediction))
PredictMin == 100
PredictMax == 20000

(* ------------------------------ bounds --------------------------------- *)
\* most orders of one side the exchange lets this account rest at once;
\* a submission beyond it is rejected
MaxResting == 2

(* ------------------------- environment inputs -------------------------- *)
\* values get_position can return (hundredths): -30, 0, 0.5, 5, 40
Positions == {-3000, 0, 50, 500, 4000}
\* values get_midpoint can return: 0.40, 0.50
Midpoints == {40000, 50000}
\* raw outputs of model.predict: 0.0005, 0.05005
Predictions == {50, 5005}
\* position_skew_threshold values a configuration may carry, in percent
Thresholds == {0, 30}

VARIABLES
    config,            \* MarketMakerConfig of this engine
    model,             \* TRUE iff best_model.joblib was loaded (self.model)
    position,          \* self.position
    active_orders,     \* self.active_orders: open orders per side, as last read
    buy_order_id,      \* self.buy_order_id
    sell_order_id,     \* self.sell_order_id
    last_spread_width, \* self.last_spread_width
    last_buy_size,     \* self.last_buy_size
    last_sell_size,    \* self.last_sell_size
    pc,                \* where the engine's task stands
    resting,           \* exchange: orders per side the engine placed and the
                       \* exchange has not cancelled (fills are not tracked)
    calls,             \* exchange calls issued in the current tick, in order
    sent,              \* orders submitted by rebalance_position (until the settle
                       \* delay ends) or by place_market_making_orders
    trail,             \* control-loop states visited in the current tick
    skew,              \* skew read by the latest of needs_rebalancing,
                       \* rebalance_position, spread_changed and
                       \* place_market_making_orders, until the tick moves on
    desired,           \* width and sizes spread_changed computed, likewise
    raised,            \* an exception reached run()'s handler in this tick
    prevRejected       \* a quote submission was rejected in the previous tick

vars == << config, model, position, active_orders, buy_order_id, sell_order_id,
           last_spread_width, last_buy_size, last_sell_size, pc, resting,
           calls, sent, trail, skew, desired, raised, prevRejected >>

engine == << position, active_orders, buy_order_id, sell_order_id,
             last_spread_width, last_buy_size, last_sell_size >>
ids == << buy_order_id, sell_order_id >>
snapshot == << last_spread_width, last_buy_size, last_sell_size >>

NoOrders == [buy |-> 0, sell |-> 0]

\* one entry of the call log: the call, whether it returned (ok) or raised,
\* and for update_state the fields it assigned
Call(op, ok) == [op |-> op, ok |-> ok, assigned |-> "-"]
Fetch(ok, assigned) == [op |-> "update_state", ok |-> ok, assigned |-> assigned]

\* one submitted order
Order(kind, side, size, price, ok) ==
    [kind |-> kind, side |-> side, size |-> size, price |-> price, ok |-> ok]


(* --------------------------- pure functions ---------------------------- *)
\* Python's round() on the rational n/d (d > 0): nearest integer, ties to even
\* (RoundHalfUp sends ties upwards instead)
RoundHalfUp(n, d) == (2 * n + d) \div (2 * d)
RoundHalfEven(n, d) ==
    LET q == n \div d
        r == n % d
    IN  IF 2 * r < d THEN q
        ELSE IF 2 * r > d THEN q + 1
        ELSE IF q % 2 = 0 THEN q ELSE q + 1

\* get_position_skew, once get_position has returned p
SkewOf(p) == p - config.target_position

\* needs_rebalancing on the skew it read: abs(skew) > max_position * threshold
needs_rebalancing_ge(s) ==
    Abs(s) * 100 >= config.max_position * config.position_skew_threshold
needs_rebalancing(s) ==
    Abs(s) * 100 > config.max_position * config.position_skew_threshold

\* rebalance_position's early return: abs(skew) < 1
TooSmallNever(s) == FALSE
TooSmallToRebalance(s) == Abs(s) < MinRebalanceSkew

\* rebalance_position's order for skew s at midpoint m
RebalanceOrderSameSide(s, m) ==
    IF s > 0
    THEN [side |-> "BUY", size |-> Min(Abs(s), RebalanceChunk), price |-> m + RebalanceOffset]
    ELSE [side |-> "SELL", size |-> Min(Abs(s), RebalanceChunk), price |-> m - RebalanceOffset]
RebalanceOrder(s, m) ==
    IF s > 0
    THEN [side |-> "SELL", size |-> Min(Abs(s), RebalanceChunk), price |-> m - RebalanceOffset]
    ELSE [side |-> "BUY", size |-> Min(Abs(s), RebalanceChunk), price |-> m + RebalanceOffset]

\* calculate_order_sizes on skew s: the size multipliers are kept as numerators
\* over max_position; round() acts on shares, so the result is 100 * shares
\* (calculate_order_sizes_same_sign uses 1 - skew_ratio for the sell size too)
calculate_order_sizes_same_sign(s) ==
    LET floor == (MinMultiplierPct * config.max_position) \div 100
        buy_mult == Max(floor, config.max_position - s)
        buy_size == RoundHalfEven(BaseSize * buy_mult, config.max_position * 100)
    IN  << Max(MinSize, 100 * buy_size), Max(MinSize, 100 * buy_size) >>
calculate_order_sizes(s) ==
    LET floor == (MinMultiplierPct * config.max_position) \div 100
        buy_mult == Max(floor, config.max_position - s)
        sell_mult == Max(floor, config.max_position + s)
        buy_size == RoundHalfEven(BaseSize * buy_mult, config.max_position * 100)
        sell_size == RoundHalfEven(BaseSize * sell_mult, config.max_position * 100)
    IN  << Max(MinSize, 100 * buy_size), Max(MinSize, 100 * sell_size) >>

\* predict_spread_width: every value one call can return
predict_spread_width ==
    IF ~model THEN {config.base_spread_width}
    ELSE {Max(PredictMin, Min(PredictMax, p)) : p \in Predictions}
         \cup {config.base_spread_width}

\* calculate_spread_width (symmetric variant): the width of both sides is the
\* provider's width, base_spread_width or the clamped prediction
calculate_spread_width == predict_spread_width

\* spread_changed's comparison of freshly computed parameters with the snapshot
spread_changed_always(w, b, s) == TRUE
spread_changed(w, b, s) ==
    IF last_spread_width = None THEN TRUE
    ELSE \/ Abs(w - Val(last_spread_width)) > WidthTolerance
         \/ Abs(b - Val(last_buy_size)) > SizeTolerance
         \/ Abs(s - Val(last_sell_size)) > SizeTolerance

\* place_market_making_orders, lines 213-214: the prices of the two quotes at
\* midpoint m for width w
quote_prices_crossed(m, w) == [buy |-> m + w, sell |-> m - w]
quote_prices(m, w) == [buy |-> m - w, sell |-> m + w]

\* place_market_making_orders, lines 231-233: the snapshot stored after both
\* submissions, of the width w and the sizes the orders were built from
\* (snapshot_written_base stores the configured width in place of w)
snapshot_written_base(w, sizes) ==
    << Some(config.base_spread_width), Some(sizes[1]), Some(sizes[2]) >>
snapshot_written(w, sizes) == << Some(w), Some(sizes[1]), Some(sizes[2]) >>

\* update(), line 197: what last_spread_width holds after a rebalance
SnapshotKept == last_spread_width
ForcedSnapshot == None

\* update(), lines 193-194: where control goes when rebalance_position returns
\* early, without an order: to the settle delay all the same
AfterNoCorrectionSkips == "check_changed"
AfterNoCorrection == "settle"

\* run(): where control goes when update() raises an Exception
CaughtCrashes == "crashed"
Caught == "sleep"

\* run(): where control goes when CancelledError is raised inside update(), at
\* its await sleep(5); the handler names Exception, which CancelledError is not
CancelledInUpdateSwallowed == Caught
CancelledInUpdate == "cancelled"

(* ------------------------------- Init ---------------------------------- *)
\* the state MarketMaker.__init__ leaves, for any configuration of the kind
\* main.py builds (defaults, with the threshold left open) and either outcome
\* of the model file lookup
Init ==
    /\ config \in [target_position : {TargetPosition},
                   max_position : {MaxPosition},
                   position_skew_threshold : Thresholds,
                   base_spread_width : {BaseSpreadWidth}]
    /\ model \in BOOLEAN
    /\ position = None
    /\ buy_order_id = None
    /\ sell_order_id = None
    /\ active_orders = NoOrders
    /\ last_spread_width = None
    /\ last_buy_size = None
    /\ last_sell_size = None
    /\ pc = "create"
    /\ resting = NoOrders
    /\ calls = << >>
    /\ sent = << >>
    /\ trail = << >>
    /\ skew = None
    /\ desired = None
    /\ raised = FALSE
    /\ prevRejected = FALSE

(* --------------------------- shared steps ------------------------------ *)
\* an Exception leaves update() and is caught by run()'s handler
Raise ==
    /\ pc' = Caught
    /\ raised' = TRUE

\* the values one call of get_position_skew can return: 0.0 without a query
\* while position is None, else the exchange's current position minus target
get_position_skew ==
    IF position = None THEN {0} ELSE {SkewOf(p) : p \in Positions}

\* get_position_skew queries the exchange, so it can raise, unless position is None
SkewReadCanFail == position # None

\* the call log once get_position_skew has run: its get_position query is
\* added, unless position is None and no query is made
Queried(ok) ==
    IF position = None THEN calls ELSE Append(calls, Call("get_position", ok))

\* update_state: position is assigned as soon as get_position returns, and
\* active_orders only after get_orders returns; either query can raise.
\* okpc: where a return leads; failpc: where an exception leads; handled: the
\* exception is caught by run()
update_state_swallowed(okpc, failpc, handled) ==
    /\ pc' = okpc
    /\ UNCHANGED raised
    /\ \/ /\ UNCHANGED << position, active_orders >>
          /\ calls' = Append(calls, Fetch(FALSE, "none"))
       \/ \E p \in Positions :
             /\ position' = Some(p)
             /\ \/ /\ active_orders' = resting
                   /\ calls' = Append(calls, Fetch(TRUE, "both"))
                \/ /\ UNCHANGED active_orders
                   /\ calls' = Append(calls, Fetch(FALSE, "position"))
update_state(okpc, failpc, handled) ==
    \/ /\ UNCHANGED << position, active_orders >>
       /\ calls' = Append(calls, Fetch(FALSE, "none"))
       /\ pc' = failpc
       /\ raised' = handled
    \/ \E p \in Positions :
          /\ position' = Some(p)
          /\ \/ /\ active_orders' = resting
                /\ calls' = Append(calls, Fetch(TRUE, "both"))
                /\ pc' = okpc
                /\ UNCHANGED raised
             \/ /\ UNCHANGED active_orders
                /\ calls' = Append(calls, Fetch(FALSE, "position"))
                /\ pc' = failpc
                /\ raised' = handled

\* cancel_all_orders, issued being the call log so far: on success the ids
\* and active_orders are cleared; a failure is swallowed and leaves them
cancel_all_orders_local(issued) ==
    /\ buy_order_id' = None
    /\ sell_order_id' = None
    /\ active_orders' = NoOrders
    /\ calls' = issued
    /\ UNCHANGED resting
cancel_all_orders_clears_first(issued) ==
    /\ buy_order_id' = None
    /\ sell_order_id' = None
    /\ active_orders' = NoOrders
    /\ \/ /\ resting' = NoOrders
          /\ calls' = Append(issued, Call("cancel", TRUE))
       \/ /\ UNCHANGED resting
          /\ calls' = Append(issued, Call("cancel", FALSE))
cancel_all_orders_clears_buy_only(issued) ==
    \/ /\ buy_order_id' = None
       /\ active_orders' = NoOrders
       /\ resting' = NoOrders
       /\ calls' = Append(issued, Call("cancel", TRUE))
       /\ UNCHANGED sell_order_id
    \/ /\ UNCHANGED << buy_order_id, sell_order_id, active_orders, resting >>
       /\ calls' = Append(issued, Call("cancel", FALSE))
cancel_all_orders(issued) ==
    \/ /\ buy_order_id' = None
       /\ sell_order_id' = None
       /\ active_orders' = NoOrders
       /\ resting' = NoOrders
       /\ calls' = Append(issued, Call("cancel", TRUE))
    \/ /\ UNCHANGED << buy_order_id, sell_order_id, active_orders, resting >>
       /\ calls' = Append(issued, Call("cancel", FALSE))

\* the exchange takes an order of this side (place_order returns)
Accepts(side) ==
    IF side = "BUY" THEN resting.buy < MaxResting ELSE resting.sell < MaxResting
Rest(r, side) ==
    IF side = "BUY" THEN [r EXCEPT !.buy = @ + 1] ELSE [r EXCEPT !.sell = @ + 1]

(* ------------------------------ actions -------------------------------- *)
\* MarketMaker.create: the first update_state, outside run()'s handler
\* (CreateWithoutFetch returns the instance as __init__ left it)
CreateWithoutFetch ==
    /\ pc = "create"
    /\ pc' = "ready"
    /\ UNCHANGED << config, model, engine, resting, calls, sent, trail, skew,
                    desired, raised, prevRejected >>
Create ==
    /\ pc = "create"
    /\ update_state("ready", "failed", FALSE)
    /\ UNCHANGED << config, model, buy_order_id, sell_order_id, last_spread_width,
                    last_buy_size, last_sell_size, resting, sent, trail, skew,
                    desired, prevRejected >>

\* lifespan: the task created for maker.run() starts its first iteration
StartRun ==
    /\ pc = "ready"
    /\ pc' = "fetch_state"
    /\ calls' = << >>
    /\ UNCHANGED << config, model, engine, resting, sent, trail, skew, desired,
                    raised, prevRejected >>

\* update(), line 187: FETCH_STATE
FetchState ==
    /\ pc = "fetch_state"
    /\ update_state("check_skew", Caught, TRUE)
    /\ trail' = << "FETCH_STATE" >>
    /\ UNCHANGED << config, model, buy_order_id, sell_order_id, last_spread_width,
                    last_buy_size, last_sell_size, resting, sent, skew, desired,
                    prevRejected >>

\* update(), line 190: CHECK_SKEW, needs_rebalancing()
CheckSkew ==
    /\ pc = "check_skew"
    /\ trail' = Append(trail, "CHECK_SKEW")
    /\ \/ /\ SkewReadCanFail
          /\ skew' = None
          /\ calls' = Queried(FALSE)
          /\ Raise
       \/ \E s \in get_position_skew :
             /\ skew' = Some(s)
             /\ calls' = Queried(TRUE)
             /\ pc' = IF needs_rebalancing(s) THEN "rebalance_cancel" ELSE "check_changed"
             /\ UNCHANGED raised
    /\ UNCHANGED << config, model, engine, resting, sent, desired, prevRejected >>

\* update(), lines 191-192: the skew is read again for the log line (the value
\* is only printed), then cancel_all_orders
RebalanceCancel ==
    /\ pc = "rebalance_cancel"
    /\ trail' = Append(trail, "REBALANCE_AND_SETTLE")
    /\ \/ /\ SkewReadCanFail
          /\ calls' = Queried(FALSE)
          /\ Raise
          /\ UNCHANGED << buy_order_id, sell_order_id, active_orders, resting >>
       \/ /\ cancel_all_orders(Queried(TRUE))
          /\ pc' = "rebalance_position"
          /\ UNCHANGED raised
    /\ UNCHANGED << config, model, position, last_spread_width, last_buy_size,
                    last_sell_size, sent, skew, desired, prevRejected >>

\* update(), line 193: rebalance_position
rebalance_position ==
    /\ pc = "rebalance_position"
    /\ \/ /\ SkewReadCanFail
          /\ skew' = None
          /\ calls' = Queried(FALSE)
          /\ Raise
          /\ UNCHANGED << resting, sent >>
       \/ \E s \in get_position_skew :
             /\ skew' = Some(s)
             /\ IF TooSmallToRebalance(s)
                THEN /\ pc' = AfterNoCorrection
                     /\ calls' = Queried(TRUE)
                     /\ UNCHANGED << resting, sent, raised >>
                ELSE \/ /\ calls' = Append(Queried(TRUE), Call("midpoint", FALSE))
                        /\ Raise
                        /\ UNCHANGED << resting, sent >>
                     \/ \E m \in Midpoints :
                           LET o == RebalanceOrder(s, m)
                               issued(ok) == Queried(TRUE) \o << Call("midpoint", TRUE),
                                                                 Call("submit_correction", ok) >>
                               order(ok) == Order("correction", o.side, o.size, o.price, ok)
                           IN  \/ /\ Accepts(o.side)
                                  /\ resting' = Rest(resting, o.side)
                                  /\ calls' = issued(TRUE)
                                  /\ sent' = << order(TRUE) >>
                                  /\ pc' = "settle"
                                  /\ UNCHANGED raised
                               \/ /\ calls' = issued(FALSE)
                                  /\ sent' = << order(FALSE) >>
                                  /\ Raise
                                  /\ UNCHANGED resting
    /\ UNCHANGED << config, model, engine, trail, desired, prevRejected >>

\* update(), line 194: await sleep(5) returns
\* (SettleWithoutDelay goes on to the re-fetch with no delay awaited)
SettleWithoutDelay ==
    /\ pc = "settle"
    /\ pc' = "refetch"
    /\ sent' = << >>
    /\ skew' = None
    /\ UNCHANGED << config, model, engine, resting, calls, trail, desired, raised,
                    prevRejected >>
Settle ==
    /\ pc = "settle"
    /\ pc' = "refetch"
    /\ calls' = Append(calls, Call("settle", TRUE))
    /\ sent' = << >>
    /\ skew' = None
    /\ UNCHANGED << config, model, engine, resting, trail, desired, raised,
                    prevRejected >>

\* update(), lines 195-197: update_state, then the snapshot is cleared
Refetch ==
    /\ pc = "refetch"
    /\ update_state("check_changed", Caught, TRUE)
    /\ last_spread_width' = IF pc' = "check_changed" THEN ForcedSnapshot
                            ELSE last_spread_width
    /\ UNCHANGED << config, model, buy_order_id, sell_order_id, last_buy_size,
                    last_sell_size, resting, sent, trail, skew, desired,
                    prevRejected >>

\* update(), line 200: CHECK_CHANGED, spread_changed(); FALSE is the NOOP branch
CheckChanged ==
    /\ pc = "check_changed"
    /\ \/ /\ SkewReadCanFail
          /\ skew' = None
          /\ desired' = None
          /\ calls' = Queried(FALSE)
          /\ trail' = Append(trail, "CHECK_CHANGED")
          /\ Raise
       \/ \E w \in calculate_spread_width, s \in get_position_skew :
             LET sizes == calculate_order_sizes(s)
             IN  /\ skew' = Some(s)
                 /\ calls' = Queried(TRUE)
                 /\ desired' = Some([width |-> w, buy |-> sizes[1], sell |-> sizes[2]])
                 /\ IF spread_changed(w, sizes[1], sizes[2])
                    THEN /\ pc' = "reconcile_cancel"
                         /\ trail' = Append(trail, "CHECK_CHANGED")
                    ELSE /\ pc' = "sleep"
                         /\ trail' = trail \o << "CHECK_CHANGED", "NOOP" >>
                 /\ UNCHANGED raised
    /\ UNCHANGED << config, model, engine, resting, sent, prevRejected >>

\* update(), line 202: RECONCILE begins with cancel_all_orders
ReconcileCancel ==
    /\ pc = "reconcile_cancel"
    /\ cancel_all_orders(calls)
    /\ pc' = "place"
    /\ trail' = Append(trail, "RECONCILE")
    /\ skew' = None
    /\ desired' = None
    /\ UNCHANGED << config, model, position, last_spread_width, last_buy_size,
                    last_sell_size, sent, raised, prevRejected >>

\* update(), line 203: place_market_making_orders.  The midpoint read and the
\* size computation are outside its try block; both submissions and the
\* assignments of ids and snapshot are inside it
place_market_making_orders ==
    /\ pc = "place"
    /\ \/ /\ calls' = Append(calls, Call("midpoint", FALSE))
          /\ Raise
          /\ UNCHANGED << buy_order_id, sell_order_id, last_spread_width,
                          last_buy_size, last_sell_size, resting, sent, skew >>
       \/ /\ SkewReadCanFail
          /\ calls' = calls \o << Call("midpoint", TRUE), Call("get_position", FALSE) >>
          /\ Raise
          /\ UNCHANGED << buy_order_id, sell_order_id, last_spread_width,
                          last_buy_size, last_sell_size, resting, sent, skew >>
       \/ \E m \in Midpoints, w \in calculate_spread_width, s \in get_position_skew :
             LET sizes == calculate_order_sizes(s)
                 price == quote_prices(m, w)
                 read == Append(calls, Call("midpoint", TRUE))
                 issued == IF position = None THEN read
                           ELSE Append(read, Call("get_position", TRUE))
                 buy(ok) == Order("quote", "BUY", sizes[1], price.buy, ok)
                 sell(ok) == Order("quote", "SELL", sizes[2], price.sell, ok)
             IN  /\ pc' = "sleep"
                 /\ skew' = Some(s)
                 /\ UNCHANGED raised
                 /\ \/ /\ calls' = Append(issued, Call("submit_buy", FALSE))
                       /\ sent' = << buy(FALSE) >>
                       /\ UNCHANGED << buy_order_id, sell_order_id, last_spread_width,
                                       last_buy_size, last_sell_size, resting >>
                    \/ /\ Accepts("BUY")
                       /\ calls' = issued \o << Call("submit_buy", TRUE),
                                                Call("submit_sell", FALSE) >>
                       /\ sent' = << buy(TRUE), sell(FALSE) >>
                       /\ resting' = Rest(resting, "BUY")
                       /\ UNCHANGED << buy_order_id, sell_order_id, last_spread_width,
                                       last_buy_size, last_sell_size >>
                    \/ /\ Accepts("BUY")
                       /\ Accepts("SELL")
                       /\ calls' = issued \o << Call("submit_buy", TRUE),
                                                Call("submit_sell", TRUE) >>
                       /\ sent' = << buy(TRUE), sell(TRUE) >>
                       /\ resting' = Rest(Rest(resting, "BUY"), "SELL")
                       /\ buy_order_id' = Some("buy")
                       /\ sell_order_id' = Some("sell")
                       /\ last_spread_width' = snapshot_written(w, sizes)[1]
                       /\ last_buy_size' = snapshot_written(w, sizes)[2]
                       /\ last_sell_size' = snapshot_written(w, sizes)[3]
    /\ UNCHANGED << config, model, position, active_orders, trail, desired,
                    prevRejected >>

\* a quote submission of this tick was rejected
QuoteRejected ==
    \E i \in 1..Len(calls) :
        calls[i].op \in {"submit_buy", "submit_sell"} /\ ~calls[i].ok

\* run(), line 251: await sleep(update_interval) returns; the next iteration starts
Sleep ==
    /\ pc = "sleep"
    /\ pc' = "fetch_state"
    /\ prevRejected' = QuoteRejected
    /\ calls' = << >>
    /\ sent' = << >>
    /\ trail' = << >>
    /\ skew' = None
    /\ desired' = None
    /\ raised' = FALSE
    /\ UNCHANGED << config, model, engine, resting >>

\* lifespan, line 38: trading_task.cancel().  CancelledError is raised in the
\* task at the await it is suspended in, sleep(5) or sleep(update_interval),
\* or before its first step; it is no Exception, so run() does not catch it
CancelWithCleanup ==
    /\ pc \in {"ready", "settle", "sleep"}
    /\ pc' = "cancelled"
    /\ cancel_all_orders(calls)
    /\ UNCHANGED << config, model, position, last_spread_width, last_buy_size,
                    last_sell_size, sent, trail, skew, desired, raised,
                    prevRejected >>
Cancel ==
    /\ pc \in {"ready", "settle", "sleep"}
    /\ pc' = IF pc = "settle" THEN CancelledInUpdate ELSE "cancelled"
    /\ UNCHANGED << config, model, engine, resting, calls, sent, trail, skew,
                    desired, raised, prevRejected >>

Next ==
    \/ Create
    \/ StartRun
    \/ FetchState
    \/ CheckSkew
    \/ RebalanceCancel
    \/ rebalance_position
    \/ Settle
    \/ Refetch
    \/ CheckChanged
    \/ ReconcileCancel
    \/ place_market_making_orders
    \/ Sleep
    \/ Cancel

Spec == Init /\ [][Next]_vars

(* ------------------------- reading the tick ---------------------------- *)
Last(seq) == seq[Len(seq)]
Visited(st) == \E i \in 1..Len(trail) : trail[i] = st
Rebalanced == Visited("REBALANCE_AND_SETTLE")
Called(op) == \E i \in 1..Len(calls) : calls[i].op = op
CountCalls(op) == Cardinality({i \in 1..Len(calls) : calls[i].op = op})
Failed(op) == \E i \in 1..Len(calls) : calls[i].op = op /\ ~calls[i].ok

(* ------------------------------ claims --------------------------------- *)

\* C1: in every tick the rebalance path is entered if and only if the skew that
\* needs_rebalancing computes (position read minus target) satisfies
\* |skew| > max_position * position_skew_threshold, strictly; at equality and
\* below, the tick goes straight to CHECK_CHANGED.
C1_RebalanceIffAboveThreshold ==
    [][ /\ (pc' = "rebalance_cancel" /\ pc # "rebalance_cancel")
            => /\ pc = "check_skew"
               /\ skew' # None
               /\ Abs(Val(skew')) * 100 > config.max_position * config.position_skew_threshold
        /\ (pc = "check_skew" /\ skew' # None)
            => IF Abs(Val(skew')) * 100 > config.max_position * config.position_skew_threshold
               THEN pc' = "rebalance_cancel"
               ELSE pc' = "check_changed" ]_vars

\* C1 witness: threshold 0.3 of 100, skew 40 read: the rebalance path is entered
C1_Witness ==
    /\ pc = "rebalance_cancel"
    /\ config.position_skew_threshold = 30
    /\ skew = Some(4000)

\* C2: whenever the skew rebalance_position reads has |skew| < 1, it submits no
\* correction order, even when the threshold is exceeded (threshold 0, skew 0.5).
C2_NoCorrectionBelowOne ==
    (pc = "settle" /\ skew # None /\ Abs(Val(skew)) < 100)
        => (sent = << >> /\ ~Called("submit_correction"))

\* C2 witness: threshold 0, skew 0.5: rebalance_position returned without an order
C2_Witness ==
    /\ pc = "settle"
    /\ config.position_skew_threshold = 0
    /\ skew = Some(50)
    /\ sent = << >>
    /\ Rebalanced

\* C3: when rebalance_position reads |skew| >= 1 and the midpoint, exactly one
\* correction order is submitted in the tick, of size min(|skew|, 10): a SELL at
\* midpoint - 0.01 when skew > 0, a BUY at midpoint + 0.01 when skew < 0.
C3_CorrectionForm(o, s) ==
    /\ o.kind = "correction"
    /\ o.size = (IF Abs(s) < 1000 THEN Abs(s) ELSE 1000)
    /\ s > 0 => (o.side = "SELL" /\ \E m \in Midpoints : o.price = m - 1000)
    /\ s < 0 => (o.side = "BUY" /\ \E m \in Midpoints : o.price = m + 1000)
C3_OneCorrectionOrder ==
    /\ CountCalls("submit_correction") <= 1
    /\ (pc = "settle" /\ skew # None /\ Abs(Val(skew)) >= 100)
          => /\ CountCalls("submit_correction") = 1
             /\ Len(sent) = 1
             /\ sent[1].ok
             /\ C3_CorrectionForm(sent[1], Val(skew))
    /\ Called("submit_correction") /\ pc \in {"settle", "sleep"} /\ sent # << >>
          /\ sent[1].kind = "correction"
          => /\ skew # None
             /\ Abs(Val(skew)) >= 100
             /\ C3_CorrectionForm(sent[1], Val(skew))

\* C3 witness: position 40, target 0, max 100, threshold 0.3: one SELL of 10 at
\* midpoint 0.50 - 0.01
C3_Witness ==
    /\ pc = "settle"
    /\ config.position_skew_threshold = 30
    /\ position = Some(4000)
    /\ skew = Some(4000)
    /\ sent = << Order("correction", "SELL", 1000, 49000, TRUE) >>

\* C4: in a tick without rebalance where the computed width and sizes each
\* differ from the last-applied snapshot by no more than the tolerance (0.0001
\* for the width, 0.01 for the sizes), the tick takes NOOP: it has issued no
\* cancel and no submit call, and ids, snapshot and resting orders are unchanged.
C4_WithinTolerance ==
    /\ desired' # None
    /\ last_spread_width # None
    /\ Abs(Val(desired').width - Val(last_spread_width)) <= 10
    /\ Abs(Val(desired').buy - Val(last_buy_size)) <= 1
    /\ Abs(Val(desired').sell - Val(last_sell_size)) <= 1
C4_UnchangedTickIsNoop ==
    [][ (pc = "check_changed" /\ ~Rebalanced /\ C4_WithinTolerance)
          => /\ pc' = "sleep"
             /\ Last(trail') = "NOOP"
             /\ \A i \in 1..Len(calls') : calls'[i].op \in {"update_state", "get_position"}
             /\ UNCHANGED << ids, snapshot, resting, active_orders >> ]_vars

\* C4 witness: a NOOP tick whose computed width 0.05005 differs from the
\* snapshot's 0.05 by less than the tolerance
C4_Witness ==
    /\ pc = "sleep"
    /\ Last(trail) = "NOOP"
    /\ last_spread_width = Some(5000)
    /\ desired # None
    /\ Val(desired).width = 5005
    /\ buy_order_id # None

\* C5: after a rebalance (REBALANCE_AND_SETTLE ran through its re-fetch) the
\* snapshot is cleared, so CHECK_CHANGED reports "changed" whatever the snapshot
\* held: the tick never takes NOOP, it goes on to RECONCILE, and unless a call
\* of RECONCILE fails a fresh buy and a fresh sell quote are submitted.
C5_FreshQuotesAfterRebalance ==
    /\ (pc = "check_changed" /\ Rebalanced) => last_spread_width = None
    /\ Rebalanced => ~Visited("NOOP")
    /\ (pc = "sleep" /\ Rebalanced /\ ~raised)
          => /\ Last(trail) = "RECONCILE"
             /\ Called("submit_buy")
             /\ ~QuoteRejected
                  => /\ Len(sent) = 2
                     /\ sent[1].kind = "quote" /\ sent[1].side = "BUY" /\ sent[1].ok
                     /\ sent[2].kind = "quote" /\ sent[2].side = "SELL" /\ sent[2].ok

\* C5 witness: after a rebalance the computed sizes equal the sizes of the old
\* snapshot and the width is the base width, yet the tick goes to RECONCILE
C5_Witness ==
    /\ pc = "reconcile_cancel"
    /\ Rebalanced
    /\ last_spread_width = None
    /\ last_buy_size # None
    /\ desired # None
    /\ Val(desired).width = 5000
    /\ Val(desired).buy = Val(last_buy_size)
    /\ Val(desired).sell = Val(last_sell_size)

\* C6: an exception raised inside an iteration (state fetch, skew read,
\* midpoint read, submit) is caught at the iteration boundary: the loop is then
\* at SLEEP, from where it goes to the next FETCH_STATE or is cancelled; the
\* loop is never anywhere but in its states, and ends only by cancellation.
C6_ExceptionsCaughtAtBoundary ==
    /\ [](raised => pc \in {"sleep", "cancelled"})
    /\ [](pc \in {"create", "failed", "ready", "fetch_state", "check_skew",
                  "rebalance_cancel", "rebalance_position", "settle", "refetch",
                  "check_changed", "reconcile_cancel", "place", "sleep",
                  "cancelled"})
    /\ [][pc = "sleep" => pc' \in {"fetch_state", "cancelled"}]_vars
    /\ [][(\/ Failed("update_state")' \/ Failed("get_position")'
            \/ Failed("midpoint")' \/ Failed("submit_correction")')
             /\ pc \notin {"create", "failed", "ready", "cancelled"}
             => pc' \in {"sleep", "cancelled"}]_vars

\* C6 witness: a midpoint read failed during RECONCILE and the loop is at SLEEP
C6_Witness ==
    /\ raised
    /\ pc = "sleep"
    /\ Last(trail) = "RECONCILE"
    /\ Failed("midpoint")

\* C7: cancellation takes effect only at iteration boundaries: when the loop
\* is CANCELLED, the iteration that was in flight has run to completion (it
\* ended in NOOP or RECONCILE, or by a caught exception), also when the cancel
\* request arrived during the settle delay.
C7_CancelOnlyAtBoundary ==
    pc = "cancelled"
        => \/ trail = << >>
           \/ raised
           \/ Last(trail) \in {"NOOP", "RECONCILE"}

\* C8: update_state is all-or-nothing: every call of it in a tick assigns both
\* position and active_orders, or neither, also when the open-orders query fails.
C8_RefreshAllOrNothing ==
    Visited("FETCH_STATE")
        => \A i \in 1..Len(calls) :
              calls[i].op = "update_state" => calls[i].assigned \in {"both", "none"}

\* C9: in reconcile a rejected buy submission leaves only the buy unplaced: the
\* sell quote is still submitted in the same tick.
C9_RejectedBuyStillSubmitsSell ==
    (pc = "sleep" /\ Failed("submit_buy")) => Called("submit_sell")

\* C10: if a quote submission was rejected in a tick, the next tick re-attempts
\* placement: it does not take NOOP, whatever the snapshot holds and whatever
\* skew it observes.
C10_RetryAfterRejection ==
    prevRejected => ~Visited("NOOP")

(* --------------------- behaviours without a failed cancel -------------- *)
\* the steps of Next in which cancel_all_orders, if it runs, returns normally
NextCancelOk == Next /\ ~Failed("cancel")'

SpecCancelOk == Init /\ [][NextCancelOk]_vars

Submits == {"submit_correction", "submit_buy", "submit_sell"}

\* the i-th call of the tick, a submission, comes after a completed cancel-all
\* with no submission of the same kind, nor a correction, in between (a
\* correction can be of either side, so nothing may lie between it and the cancel)
CancelledSince(i) ==
    \E j \in 1..(i - 1) :
        /\ calls[j].op = "cancel"
        /\ calls[j].ok
        /\ \A k \in (j + 1)..(i - 1) :
              calls[k].op \notin (IF calls[i].op = "submit_correction" THEN Submits
                                  ELSE {calls[i].op, "submit_correction"})

\* C11: as long as every cancel call succeeds, at every SLEEP the exchange
\* holds at most one resting order of the engine on the buy side and at most
\* one on the sell side, corrections included, and every submission of a tick
\* comes after a completed cancel-all with no earlier submission of that side
\* in between.  Checked under SpecCancelOk.
C11_AtMostOnePerSide ==
    /\ pc = "sleep" => resting.buy <= 1 /\ resting.sell <= 1
    /\ \A i \in 1..Len(calls) : calls[i].op \in Submits => CancelledSince(i)

\* C11 witness: a rebalancing tick has placed a correction and then both
\* quotes, and at SLEEP one order rests on each side
C11_Witness ==
    /\ pc = "sleep"
    /\ Called("submit_correction")
    /\ Len(sent) = 2
    /\ sent[1].ok /\ sent[2].ok
    /\ resting = [buy |-> 1, sell |-> 1]

(* ------------------------- a failed cancel-all ------------------------- *)
\* the latest call of the tick is a cancel-all that raised
CancelJustFailed ==
    /\ calls # << >>
    /\ Last(calls).op = "cancel"
    /\ ~Last(calls).ok

\* no call of the tick other than a cancel-all has failed
OnlyCancelFailed == \A i \in 1..Len(calls) : ~calls[i].ok => calls[i].op = "cancel"

\* C12: a cancel-all that fails, in rebalance or in reconcile, is swallowed:
\* no exception reaches run(), the stored order ids and active_orders are left
\* as they were, and the tick goes on to submit the correction order (for a
\* skew of at least one share) or both quotes, unless another call fails.
C12_FailedCancelIsSwallowed ==
    /\ [][ (CancelJustFailed' /\ calls' # calls)
             => /\ ~raised'
                /\ UNCHANGED << ids, active_orders >>
                /\ pc' \in {"rebalance_position", "place"} ]_vars
    /\ [][ (CancelJustFailed /\ pc = "place" /\ OnlyCancelFailed')
             => Called("submit_buy")' /\ Called("submit_sell")' ]_vars
    /\ [][ (/\ CancelJustFailed /\ pc = "rebalance_position" /\ OnlyCancelFailed'
            /\ skew' # None /\ ~TooSmallToRebalance(Val(skew')))
             => Called("submit_correction")' ]_vars

\* C12 witness: the cancel-all of a reconcile failed while quotes of an earlier
\* tick rested; both new quotes were submitted all the same, the old ones are
\* still resting
C12_Witness ==
    /\ pc = "sleep"
    /\ Failed("cancel")
    /\ ~raised
    /\ Len(sent) = 2
    /\ sent[1].ok /\ sent[2].ok
    /\ resting = [buy |-> 2, sell |-> 2]

(* ------------------- which position the decisions use ------------------ *)
\* C13: within one iteration every skew a decision is taken on (the rebalance
\* trigger, the correction's side and size, the sizes compared by change
\* detection and the sizes of the submitted quotes) is the position stored by
\* the iteration's latest state fetch minus the target, so that no two of
\* these decisions can disagree.
C13_DecisionsUseStoredPosition ==
    (skew # None /\ position # None) => Val(skew) = SkewOf(Val(position))

(* ---------------- calculate_order_sizes as a function ------------------ *)
\* skews of -120 to 120 shares in steps of 2.5, and two position limits
MaxSkewStep == 48
SizeSkews == {250 * k : k \in -MaxSkewStep..MaxSkewStep}
SizeMaxPositions == {5000, 10000}

\* an engine whose get_position_skew has returned any of SizeSkews
SizesInit ==
    /\ config \in [target_position : {TargetPosition},
                   max_position : SizeMaxPositions,
                   position_skew_threshold : Thresholds,
                   base_spread_width : {BaseSpreadWidth}]
    /\ model = FALSE
    /\ position = None
    /\ buy_order_id = None
    /\ sell_order_id = None
    /\ active_orders = NoOrders
    /\ last_spread_width = None
    /\ last_buy_size = None
    /\ last_sell_size = None
    /\ pc = "sizes"
    /\ resting = NoOrders
    /\ calls = << >>
    /\ sent = << >>
    /\ trail = << >>
    /\ skew \in {Some(s) : s \in SizeSkews}
    /\ desired = None
    /\ raised = FALSE
    /\ prevRejected = FALSE

\* calculate_order_sizes, lines 140-149, on that skew
ApplySizes ==
    /\ pc = "sizes"
    /\ pc' = "sized"
    /\ LET sizes == calculate_order_sizes(Val(skew))
       IN  desired' = Some([width |-> config.base_spread_width,
                            buy |-> sizes[1], sell |-> sizes[2]])
    /\ UNCHANGED << config, model, engine, resting, calls, sent, trail, skew,
                    raised, prevRejected >>

SpecSizes == SizesInit /\ [][ApplySizes]_vars

\* n is Python's round(num / den), den > 0: a nearest integer, the even one
\* of the two when num / den lies halfway
IsRounded(n, num, den) ==
    /\ 2 * Abs(n * den - num) <= den
    /\ 2 * Abs(n * den - num) = den => n % 2 = 0

\* C14: for every skew and position limit, the sizes are
\* max(min_size, round(base_size * max(0.2, 1 -/+ skew / max_position))), with
\* min_size = base_size = 5 shares: minus for the buy size, plus for the sell
\* size.  Both are at least min_size, and at skew 0 both are base_size.
\* Checked under SpecSizes.
C14_OrderSizes ==
    pc = "sized" =>
        LET s == Val(skew)
            mp == config.max_position
            \* the multipliers, times max_position
            buy_mult == Max(mp \div 5, mp - s)
            sell_mult == Max(mp \div 5, mp + s)
            d == Val(desired)
        IN  /\ \E b, a \in 0..40 :
                  /\ IsRounded(b, 5 * buy_mult, mp)
                  /\ IsRounded(a, 5 * sell_mult, mp)
                  /\ d.buy = 100 * Max(5, b)
                  /\ d.sell = 100 * Max(5, a)
            /\ d.buy >= MinSize
            /\ d.sell >= MinSize
            /\ s = 0 => d.buy = BaseSize /\ d.sell = BaseSize

\* C14 witness: skew -30 of 100: the buy size 5 * 1.3 = 6.5 is rounded to 6
C14_Witness ==
    /\ pc = "sized"
    /\ skew = Some(-3000)
    /\ config.max_position = 10000
    /\ Val(desired).buy = 600
    /\ Val(desired).sell = 500

(* --------------------------- quote prices ------------------------------ *)
\* place_market_making_orders has submitted both quotes in this tick
QuotePairSent ==
    /\ Len(sent) = 2
    /\ sent[1].kind = "quote"
    /\ sent[2].kind = "quote"

Healthy == \A i \in 1..Len(calls) : calls[i].ok

\* the configuration of the baseline scenario, without a width model
Baseline ==
    /\ config = [target_position |-> 0, max_position |-> 10000,
                 position_skew_threshold |-> 30, base_spread_width |-> 5000]
    /\ ~model

\* C16: target 0, max_position 100, threshold 0.3, base width 0.05, position 0
\* and no snapshot: the skew check triggers no rebalance, so no correction is
\* submitted; change detection finds no snapshot and reconciles; and with a
\* healthy exchange the tick submits exactly one BUY of 5 at midpoint - 0.05
\* and one SELL of 5 at midpoint + 0.05, for one midpoint, and records the
\* snapshot (0.05, 5, 5).
C16_BaselineScenario ==
    /\ [][ (Baseline /\ pc = "check_skew" /\ skew' = Some(0))
             => pc' = "check_changed" ]_vars
    /\ [][ (pc = "check_changed" /\ last_spread_width = None /\ skew' # None)
             => pc' = "reconcile_cancel" ]_vars
    /\ []( (/\ Baseline /\ pc = "sleep" /\ Healthy /\ ~Rebalanced
            /\ Last(trail) = "RECONCILE" /\ skew = Some(0))
             => /\ ~Called("submit_correction")
                /\ CountCalls("submit_buy") = 1
                /\ CountCalls("submit_sell") = 1
                /\ \E m \in Midpoints :
                      sent = << Order("quote", "BUY", 500, m - 5000, TRUE),
                                Order("quote", "SELL", 500, m + 5000, TRUE) >>
                /\ snapshot = << Some(5000), Some(500), Some(500) >> )

\* C16 witness: the baseline tick at midpoint 0.50 has placed its quotes at
\* 0.45 and 0.55
C16_Witness ==
    /\ Baseline
    /\ pc = "sleep"
    /\ trail = << "FETCH_STATE", "CHECK_SKEW", "CHECK_CHANGED", "RECONCILE" >>
    /\ Healthy
    /\ position = Some(0)
    /\ skew = Some(0)
    /\ sent = << Order("quote", "BUY", 500, 45000, TRUE),
                 Order("quote", "SELL", 500, 55000, TRUE) >>
    /\ snapshot = << Some(5000), Some(500), Some(500) >>

(* -------------------- a failed fetch or position query ----------------- *)
\* a state fetch or a position query of this tick has raised
PositionFailed == Failed("update_state") \/ Failed("get_position")

\* C17, as claimed: in a tick whose state fetch fails no cancel and no submit
\* call is issued and no rebalance is triggered.
C17_NoCallInTickOfFailedFetch ==
    (pc = "sleep" /\ Failed("update_state"))
        => /\ ~Rebalanced
           /\ ~Called("cancel")
           /\ \A i \in 1..Len(calls) : calls[i].op \notin Submits

\* C17, amended: a state fetch or position query that fails inside the loop
\* aborts the iteration at that point: the exception reaches run()'s handler,
\* the failed call is the last call of the tick, the step leaves the order
\* ids, the snapshot and the resting orders as they were, and the loop goes on
\* to the next tick.  When the failing call is the tick's first state fetch or
\* the position query of the skew check, no rebalance was triggered, no skew
\* was derived and no cancel and no submit call was issued in the tick.
C17_FailedFetchAbortsThere ==
    /\ []( (PositionFailed /\ Visited("FETCH_STATE"))
             => /\ raised
                /\ pc \in {"sleep", "cancelled"}
                /\ ~Last(calls).ok
                /\ Last(calls).op \in {"update_state", "get_position"} )
    /\ [][ (PositionFailed' /\ ~PositionFailed /\ pc # "create")
             => UNCHANGED << ids, snapshot, resting >> ]_vars
    /\ []( (PositionFailed /\ pc = "sleep" /\ Len(trail) <= 2)
             => /\ ~Rebalanced
                /\ skew = None
                /\ ~Called("cancel")
                /\ \A i \in 1..Len(calls) : calls[i].op \notin Submits )
    /\ [][ (PositionFailed /\ pc = "sleep") => pc' \in {"fetch_state", "cancelled"} ]_vars

\* C17 witness: the first state fetch of a tick failed while the quotes of an
\* earlier tick were in place; ids and snapshot are still set at SLEEP
C17_Witness ==
    /\ pc = "sleep"
    /\ raised
    /\ trail = << "FETCH_STATE" >>
    /\ Failed("update_state")
    /\ buy_order_id # None
    /\ last_spread_width # None

(* --------------------- the quote calculation's frame ------------------- *)
\* C18: the quote calculation spread_changed runs for change detection is
\* pure: the CHECK_CHANGED step issues no exchange call and modifies none of
\* position, active orders, order ids and snapshot.
C18_QuoteCalculationIsPure ==
    [][ pc = "check_changed" => (calls' = calls /\ UNCHANGED engine) ]_vars

(* ---------------------------- cancellation ----------------------------- *)
\* C19: a cancel request ends the loop: at either await the task can be
\* suspended in, the settle delay inside update() or the sleep between ticks,
\* the only way on besides the await returning is into CANCELLED (run()'s
\* handler does not swallow the cancellation); the step into CANCELLED issues
\* no call, and from CANCELLED there is no further step, hence no further
\* state fetch, cancel or submit.
C19_CancellationIsFinal ==
    /\ [][ (pc = "settle" /\ pc' # "refetch") => pc' = "cancelled" ]_vars
    /\ [][ (pc = "sleep" /\ pc' # "fetch_state") => pc' = "cancelled" ]_vars
    /\ [][ pc' = "cancelled" => (calls' = calls /\ UNCHANGED << engine, resting >>) ]_vars
    /\ [][ pc # "cancelled" ]_vars

\* C19 witness: the task was cancelled during the settle delay of a rebalance,
\* after the correction order, and is in CANCELLED
C19_Witness ==
    /\ pc = "cancelled"
    /\ Called("submit_correction")
    /\ Last(trail) = "REBALANCE_AND_SETTLE"
    /\ ~raised

(* ---------------------------- construction ----------------------------- *)
\* C20: create performs exactly one state fetch, before the engine is
\* returned and before the first iteration starts, so position is set in every
\* state of the loop, in particular whenever an iteration computes a skew; a
\* failure of that fetch is not caught by run()'s handler: the engine is not
\* created and nothing follows.
C20_CreateFetchesOnce ==
    /\ [](pc = "ready" => (calls = << Fetch(TRUE, "both") >> /\ position # None))
    /\ [](pc \notin {"create", "failed"} => position # None)
    /\ [](skew # None => position # None)
    /\ [](pc = "failed"
            => /\ calls \in {<< Fetch(FALSE, "none") >>, << Fetch(FALSE, "position") >>}
               /\ ~raised
               /\ trail = << >>)
    /\ [][ pc = "create" => pc' \in {"ready", "failed"} ]_vars
    /\ [][ pc # "failed" ]_vars

\* C20 witness: create has returned the engine after its one fetch, which
\* stored position 40; the loop has not started
C20_Witness ==
    /\ pc = "ready"
    /\ calls = << Fetch(TRUE, "both") >>
    /\ position = Some(4000)

(* ------------------------- the order of the calls ---------------------- *)
\* the calls of the tick, in order, without the position queries of
\* get_position_skew
CallOps ==
    LET listed == SelectSeq(calls, LAMBDA c : c.op # "get_position")
    IN  [i \in 1..Len(listed) |-> listed[i].op]

IsPrefix(s, full) == Len(s) <= Len(full) /\ s = SubSeq(full, 1, Len(s))

\* a rebalancing tick that emits a correction (whose price needs a midpoint
\* read of its own), one that emits none, and a tick that only reconciles
RebalanceCalls ==
    << "update_state", "cancel", "midpoint", "submit_correction", "settle",
       "update_state", "cancel", "midpoint", "submit_buy", "submit_sell" >>
RebalanceCallsNoCorrection ==
    << "update_state", "cancel", "settle",
       "update_state", "cancel", "midpoint", "submit_buy", "submit_sell" >>
ReconcileCalls ==
    << "update_state", "cancel", "midpoint", "submit_buy", "submit_sell" >>

\* C21: the calls of a rebalancing tick occur in the order state fetch,
\* cancel-all, correction submission, settle delay, state re-fetch, cancel-all,
\* midpoint read, buy submission, sell submission, and the snapshot is clear
\* from the re-fetch until the quotes are placed; the calls of a tick that
\* only reconciles occur in the order state fetch, cancel-all, midpoint read,
\* buy, sell.  A tick that fails or is cancelled issues an initial part of its
\* sequence.
C21_CallOrder ==
    /\ (Visited("FETCH_STATE") /\ Rebalanced)
          => \/ IsPrefix(CallOps, RebalanceCalls)
             \/ IsPrefix(CallOps, RebalanceCallsNoCorrection)
    /\ (Visited("FETCH_STATE") /\ ~Rebalanced) => IsPrefix(CallOps, ReconcileCalls)
    /\ (Rebalanced /\ pc \in {"check_changed", "reconcile_cancel", "place"})
          => last_spread_width = None

\* C21 witness: a rebalancing tick has issued all ten calls
C21_Witness ==
    /\ pc = "sleep"
    /\ Rebalanced
    /\ CallOps = RebalanceCalls
    /\ Healthy

(* ----------------------- the last-applied snapshot --------------------- *)
\* both quotes of the pair were accepted
QuotePairPlaced == QuotePairSent /\ sent[1].ok /\ sent[2].ok

\* the width and the sizes the quote pair of this tick was built from: the
\* width is half the distance between the two prices
QuotePairParameters ==
    << Some((sent[2].price - sent[1].price) \div 2), Some(sent[1].size),
       Some(sent[2].size) >>

\* C22: the snapshot changes only in two ways: place_market_making_orders
\* writes it after both submissions succeeded, and it is then exactly the
\* width and the sizes of those two orders; or the re-fetch of a rebalance
\* clears its width.  Every other step leaves it unchanged, and a tick whose
\* two submissions succeeded has written it.
C22_SnapshotOnlyOnSuccess ==
    /\ [][ snapshot' # snapshot
             => \/ /\ pc = "place"
                   /\ QuotePairPlaced'
                   /\ snapshot' = QuotePairParameters'
                \/ /\ pc = "refetch"
                   /\ Rebalanced
                   /\ last_spread_width' = None
                   /\ UNCHANGED << last_buy_size, last_sell_size >> ]_vars
    /\ []((pc = "sleep" /\ QuotePairPlaced) => snapshot = QuotePairParameters)

\* C22 witness: both quotes were accepted with the predicted width 0.05005
\* and sizes 6 and 5, and the snapshot holds these values
C22_Witness ==
    /\ pc = "sleep"
    /\ QuotePairPlaced
    /\ snapshot = << Some(5005), Some(600), Some(500) >>
    /\ sent[1].size = 600
    /\ sent[2].price - sent[1].price = 2 * 5005

(* --------------------- NOOP and the snapshot's quotes ------------------ *)
\* the quote pair the snapshot describes was cancelled by the engine: the ids
\* are stored together with the snapshot and cleared only by a cancel-all that
\* succeeded, which the snapshot outlives unless a re-fetch clears it
SnapshotQuotesCancelled ==
    /\ last_spread_width # None
    /\ buy_order_id = None
    /\ sell_order_id = None

\* C23: whenever a tick takes the NOOP branch, the quote pair the snapshot
\* describes has not been cancelled by the engine since it was placed.
C23_NoopOnlyWithLiveQuotes ==
    (pc = "sleep" /\ trail # << >> /\ Last(trail) = "NOOP") => ~SnapshotQuotesCancelled

(* ------------------- a rebalance without a correction ------------------ *)
\* C24: every tick in which needs_rebalancing holds issues a cancel-all,
\* awaits the settle delay, re-fetches state and clears the snapshot width,
\* whether or not rebalance_position emits a correction: unless a call fails,
\* the tick reaches SLEEP through RECONCILE, never through NOOP, having
\* cancelled twice and submitted fresh quotes.  This includes a skew above the
\* threshold but below one share (threshold 0).
C24_RebalanceEvenWithoutCorrection ==
    /\ [][ (pc = "check_skew" /\ skew' # None /\ needs_rebalancing(Val(skew')))
             => pc' = "rebalance_cancel" ]_vars
    /\ [][ (/\ pc = "rebalance_position" /\ skew' # None
            /\ TooSmallToRebalance(Val(skew')))
             => (pc' = "settle" /\ Called("cancel")' /\ ~Called("submit_correction")') ]_vars
    /\ []((Rebalanced /\ pc = "check_changed") => last_spread_width = None)
    /\ []((Rebalanced /\ pc = "sleep" /\ ~raised)
            => /\ ~Visited("NOOP")
               /\ Visited("RECONCILE")
               /\ CountCalls("cancel") = 2
               /\ CountCalls("settle") = 1
               /\ CountCalls("update_state") = 2
               /\ Called("submit_buy"))

\* C24 witness: with threshold 0 a skew of half a share triggered the
\* rebalance; no correction was emitted, and the tick still cancelled,
\* settled, re-fetched and placed fresh quotes
C24_Witness ==
    /\ config.position_skew_threshold = 0
    /\ pc = "sleep"
    /\ Rebalanced
    /\ Healthy
    /\ CallOps = RebalanceCallsNoCorrection
    /\ QuotePairPlaced

C26_CancellationLeavesOrders ==
    /\ [][ (pc # "cancelled" /\ pc' = "cancelled")
             => /\ resting' = resting
                /\ UNCHANGED << ids, snapshot >>
                /\ CountCalls("cancel")' = CountCalls("cancel") ]_vars
    /\ [][ pc = "cancelled" => resting' = resting ]_vars

\* C26 witness: the loop was cancelled at SLEEP with one quote resting on
\* each side; they still rest and the ids and the snapshot are still stored
C26_Witness ==
    /\ pc = "cancelled"
    /\ resting = [buy |-> 1, sell |-> 1]
    /\ buy_order_id # None
    /\ sell_order_id # None
    /\ last_spread_width # None

(* --------------------------- the stored ids ---------------------------- *)
\* C27: in every state buy_order_id and sell_order_id are both unset or both
\* set.  They change only together: a cancel-all that succeeded clears both,
\* and place_market_making_orders sets both after both submissions of that
\* reconcile succeeded.
C27_IdsSetTogether ==
    /\ []((buy_order_id = None) <=> (sell_order_id = None))
    /\ [][ ids' # ids
             => \/ /\ buy_order_id' = None
                   /\ sell_order_id' = None
                   /\ Last(calls').op = "cancel"
                   /\ Last(calls').ok
                \/ /\ pc = "place"
                   /\ buy_order_id = None
                   /\ sell_order_id = None
                   /\ buy_order_id' # None
                   /\ sell_order_id' # None
                   /\ QuotePairPlaced' ]_vars

\* C27 witness: after a tick whose submission was rejected, which left both
\* ids unset, a reconcile placed both quotes and set both ids
C27_Witness ==
    /\ pc = "sleep"
    /\ prevRejected
    /\ QuotePairPlaced
    /\ buy_order_id = Some("buy")
    /\ sell_order_id = Some("sell")

====
